---- MODULE Spec2Model ----
(***************************************************************************)
(* Model of tools/sensory_camera_client.py: the SimpleWebSocketClient      *)
(* (handshake, frame codec, receive loop, close) and the part of main()    *)
(* that drives it.                                                         *)
(*                                                                         *)
(* Bytes are integers 0..255 and byte strings are sequences of bytes.      *)
(* Time is counted in ticks of 0.1 s, the poll granularity of              *)
(* read_messages; one clock serves time.time() and the socket timeouts.    *)
(***************************************************************************)
EXTENDS Integers, Sequences, FiniteSets, TLC

VARIABLES
    pc,          \* position of main() / of the codec harness
    cfg,         \* Config fields used by the client: url, user, token, description, window
    key,         \* Sec-WebSocket-Key drawn by connect()
    sock,        \* self.sock: "None" or "sock"
    buffer,      \* self.buffer
    osSock,      \* the socket object connect() created: "none", "open", "closed"
    response,    \* what _read_http_response returned to connect()
    peerStream,  \* bytes the peer has still to deliver after the handshake terminator
    peerFrames,  \* the (opcode, payload) frames the peer put on the stream, in order
    now,         \* the clock, in ticks
    end_time,    \* read_messages: end_time
    timeout,     \* the socket timeout set by _recv_frame (= remaining of the last poll)
    rf,          \* locals of the _recv_frame call in progress
    message,     \* the frame _recv_frame returned to read_messages
    sendLog,     \* every sendall of a frame: the frame, its inputs, whether it succeeded
    stdout,      \* payloads printed by read_messages
    dispatched,  \* the (opcode, payload) pairs read_messages acted on, in order
    exc,         \* the exception that ended the try block or connect(), "none" if none
    trace,       \* bookkeeping for the properties: loop exit cause, timeouts seen, last close
    codecIn,     \* codec harness: the payload (length, seed), opcode and mask key given to _encode_frame
    codecOut,    \* codec harness: what _encode_frame and _recv_frame made of it
    rawResponse  \* handshake harness: the response the peer answers with, as read from the socket

vars == <<pc, cfg, key, sock, buffer, osSock, response, peerStream, peerFrames, now,
          end_time, timeout, rf, message, sendLog, stdout, dispatched, exc, trace,
          codecIn, codecOut, rawResponse>>

----------------------------------------------------------------------------
(* Bytes *)

Byte == 0..255

Bit(a, i) == (a \div (2 ^ i)) % 2

\* a ^ b, a | b, a & b on 4-bit values, bit by bit
XorBits(a, b) ==
      ((Bit(a, 0) + Bit(b, 0)) % 2)
    + ((Bit(a, 1) + Bit(b, 1)) % 2) * 2
    + ((Bit(a, 2) + Bit(b, 2)) % 2) * 4
    + ((Bit(a, 3) + Bit(b, 3)) % 2) * 8

OrBits(a, b) ==
      (IF Bit(a, 0) + Bit(b, 0) > 0 THEN 1 ELSE 0)
    + (IF Bit(a, 1) + Bit(b, 1) > 0 THEN 2 ELSE 0)
    + (IF Bit(a, 2) + Bit(b, 2) > 0 THEN 4 ELSE 0)
    + (IF Bit(a, 3) + Bit(b, 3) > 0 THEN 8 ELSE 0)

AndBits(a, b) ==
      (Bit(a, 0) * Bit(b, 0))
    + (Bit(a, 1) * Bit(b, 1)) * 2
    + (Bit(a, 2) * Bit(b, 2)) * 4
    + (Bit(a, 3) * Bit(b, 3)) * 8

\* The same three operations tabulated once (entry [a + 1][b + 1]), so that
\* masking a long payload costs two lookups a byte.
XorTable == [a \in 1..16 |-> [b \in 1..16 |-> XorBits(a - 1, b - 1)] \o <<>>] \o <<>>
OrTable == [a \in 1..16 |-> [b \in 1..16 |-> OrBits(a - 1, b - 1)] \o <<>>] \o <<>>
AndTable == [a \in 1..16 |-> [b \in 1..16 |-> AndBits(a - 1, b - 1)] \o <<>>] \o <<>>

\* a ^ b on bytes
Xor8(a, b) ==
    XorTable[(a \div 16) + 1][(b \div 16) + 1] * 16 + XorTable[(a % 16) + 1][(b % 16) + 1]

\* a | b on bytes
Or8(a, b) ==
    OrTable[(a \div 16) + 1][(b \div 16) + 1] * 16 + OrTable[(a % 16) + 1][(b % 16) + 1]

\* a & b on bytes
And8(a, b) ==
    AndTable[(a \div 16) + 1][(b \div 16) + 1] * 16 + AndTable[(a % 16) + 1][(b % 16) + 1]

\* struct.pack("!H", n) for width 2, struct.pack("!Q", n) for width 8
RECURSIVE PackBE(_, _)
PackBE(n, width) ==
    IF width = 0 THEN <<>>
    ELSE Append(PackBE(n \div 256, width - 1), n % 256)

\* struct.unpack("!H", b)[0] / struct.unpack("!Q", b)[0]
RECURSIVE UnpackBE(_)
UnpackBE(b) ==
    IF Len(b) = 0 THEN 0
    ELSE UnpackBE(SubSeq(b, 1, Len(b) - 1)) * 256 + b[Len(b)]

\* bytes(b ^ mask_key[i % 4] for i, b in enumerate(payload))
MaskBytes(payload, mask_key) ==
    [i \in 1..Len(payload) |-> Xor8(payload[i], mask_key[((i - 1) % 4) + 1])] \o <<>>

----------------------------------------------------------------------------
(* _encode_frame *)

\* This variant drops the 16-bit tier: every payload of 126 bytes or more gets
\* the 64-bit length field under the marker 126.
EncodeFrame_WrongTier(payload, opcode, mask_key) ==
    LET fin_opcode == Or8(128, opcode)
        mask_bit == 128
        length == Len(payload)
        header == IF length < 126
                  THEN <<fin_opcode, Or8(mask_bit, length)>>
                  ELSE <<fin_opcode, Or8(mask_bit, 126)>> \o PackBE(length, 8)
    IN  header \o mask_key \o MaskBytes(payload, mask_key)

\* This variant sends the payload in the clear under a mask key.
EncodeFrame_NoXor(payload, opcode, mask_key) ==
    LET fin_opcode == Or8(128, opcode)
        mask_bit == 128
        length == Len(payload)
        header == IF length < 126
                  THEN <<fin_opcode, Or8(mask_bit, length)>>
                  ELSE IF length < 65536
                  THEN <<fin_opcode, Or8(mask_bit, 126)>> \o PackBE(length, 2)
                  ELSE <<fin_opcode, Or8(mask_bit, 127)>> \o PackBE(length, 8)
    IN  header \o mask_key \o payload

EncodeFrame(payload, opcode, mask_key) ==
    LET fin_opcode == Or8(128, opcode)
        mask_bit == 128
        length == Len(payload)
        header == IF length < 126
                  THEN <<fin_opcode, Or8(mask_bit, length)>>
                  ELSE IF length < 65536
                  THEN <<fin_opcode, Or8(mask_bit, 126)>> \o PackBE(length, 2)
                  ELSE <<fin_opcode, Or8(mask_bit, 127)>> \o PackBE(length, 8)
    IN  header \o mask_key \o MaskBytes(payload, mask_key)

----------------------------------------------------------------------------
(* _recv_frame and _read_exact *)

\* mask_key = None is the empty sequence: None and b"" are both falsy in
\* "if masked and mask_key".
IdleRf ==
    [stage |-> "idle", need |-> 0, opcode |-> 0, masked |-> 0, length |-> 0,
     mask_key |-> <<>>]

NoMessage == [opcode |-> -1, payload |-> <<>>]

\* loopExit: what ended read_messages; midTimeout, hdrTimeout: a read timed
\* out inside a frame, in the header read; hdrPartial: a header read timed out
\* with one byte in the buffer; received: the bytes that came from the socket
\* after the header terminator, those that came with the handshake response
\* included; returned: the bytes _read_exact has returned.
NoTrace ==
    [loopExit |-> "none", midTimeout |-> FALSE, hdrTimeout |-> FALSE,
     hdrPartial |-> FALSE, received |-> <<>>, returned |-> <<>>]

\* no response is being examined
NoRawResponse == [status_line |-> <<>>, header_lines |-> <<>>]

\* headers.get(...) found nothing
NoneValue == [present |-> FALSE, text |-> ""]

NoResponse == [status |-> 0, accept |-> NoneValue]

\* _recv_frame up to its first read: header = self._read_exact(2)
StartRecvFrame == [IdleRf EXCEPT !.stage = "header", !.need = 2]

\* lines 286-289: unmask if masked and mask_key, return (opcode, payload)
FinishFrame(r, payload) ==
    [rf |-> IdleRf, done |-> TRUE,
     msg |-> [opcode |-> r.opcode,
              payload |-> IF r.masked # 0 /\ Len(r.mask_key) > 0
                          THEN MaskBytes(payload, r.mask_key)
                          ELSE payload]]

\* line 284: payload = self._read_exact(length) if length else b""
ToPayload(r) ==
    IF r.length # 0
    THEN [rf |-> [r EXCEPT !.stage = "payload", !.need = r.length],
          done |-> FALSE, msg |-> NoMessage]
    ELSE FinishFrame(r, <<>>)

\* line 283: mask_key = self._read_exact(4) if masked else None
ToMask(r) ==
    IF r.masked # 0
    THEN [rf |-> [r EXCEPT !.stage = "mask", !.need = 4],
          done |-> FALSE, msg |-> NoMessage]
    ELSE ToPayload([r EXCEPT !.mask_key = <<>>])

\* This variant takes the mask flag from bit 6 of the second header byte.
RecvFrameStep_WrongMaskBit(r, data) ==
    CASE r.stage = "header" ->
           LET r1 == [r EXCEPT !.opcode = And8(data[1], 15),
                               !.masked = And8(data[2], 64),
                               !.length = And8(data[2], 127)]
           IN  IF r1.length = 126
               THEN [rf |-> [r1 EXCEPT !.stage = "ext2", !.need = 2],
                     done |-> FALSE, msg |-> NoMessage]
               ELSE IF r1.length = 127
               THEN [rf |-> [r1 EXCEPT !.stage = "ext8", !.need = 8],
                     done |-> FALSE, msg |-> NoMessage]
               ELSE ToMask(r1)
      [] r.stage \in {"ext2", "ext8"} -> ToMask([r EXCEPT !.length = UnpackBE(data)])
      [] r.stage = "mask" -> ToPayload([r EXCEPT !.mask_key = data])
      [] r.stage = "payload" -> FinishFrame(r, data)

\* What _recv_frame does with the bytes one _read_exact call returned, up to
\* its next _read_exact call or its return (lines 271-289).
RecvFrameStep(r, data) ==
    CASE r.stage = "header" ->
           LET r1 == [r EXCEPT !.opcode = And8(data[1], 15),
                               !.masked = And8(data[2], 128),
                               !.length = And8(data[2], 127)]
           IN  IF r1.length = 126
               THEN [rf |-> [r1 EXCEPT !.stage = "ext2", !.need = 2],
                     done |-> FALSE, msg |-> NoMessage]
               ELSE IF r1.length = 127
               THEN [rf |-> [r1 EXCEPT !.stage = "ext8", !.need = 8],
                     done |-> FALSE, msg |-> NoMessage]
               ELSE ToMask(r1)
      [] r.stage \in {"ext2", "ext8"} -> ToMask([r EXCEPT !.length = UnpackBE(data)])
      [] r.stage = "mask" -> ToPayload([r EXCEPT !.mask_key = data])
      [] r.stage = "payload" -> FinishFrame(r, data)

Min(a, b) == IF a < b THEN a ELSE b
Max(a, b) == IF a > b THEN a ELSE b

\* _read_exact, the buffer holds enough: line 308 hands the first `need` bytes
\* to _recv_frame, which runs on to its next read or returns the frame.
ReadExactReturn ==
    /\ pc = "recv_frame"
    /\ Len(buffer) >= rf.need
    /\ LET data == SubSeq(buffer, 1, rf.need)
           step == RecvFrameStep(rf, data)
       IN  /\ buffer' = SubSeq(buffer, rf.need + 1, Len(buffer))
           /\ rf' = step.rf
           /\ message' = step.msg
           /\ pc' = IF step.done THEN "dispatch" ELSE "recv_frame"
           /\ trace' = [trace EXCEPT !.returned = @ \o data]
    /\ UNCHANGED <<cfg, key, sock, osSock, response, peerStream, peerFrames, now,
                   end_time, timeout, sendLog, stdout, dispatched, exc,
                   codecIn, codecOut, rawResponse>>

\* _read_exact, the buffer is short: sock.recv(length - len(buffer)) returns
\* k bytes after d ticks, d below the socket timeout (lines 303-307).
SockRecv(k, d) ==
    /\ pc = "recv_frame"
    /\ Len(buffer) < rf.need
    /\ k >= 1
    /\ k <= Min(rf.need - Len(buffer), Len(peerStream))
    /\ d >= 0
    /\ d < timeout
    /\ buffer' = buffer \o SubSeq(peerStream, 1, k)
    /\ peerStream' = SubSeq(peerStream, k + 1, Len(peerStream))
    /\ now' = now + d
    /\ trace' = [trace EXCEPT !.received = @ \o SubSeq(peerStream, 1, k)]
    /\ UNCHANGED <<pc, cfg, key, sock, osSock, response, peerFrames, end_time,
                   timeout, rf, message, sendLog, stdout, dispatched, exc,
                   codecIn, codecOut, rawResponse>>

----------------------------------------------------------------------------
(* Codec harness: _encode_frame's output fed to _recv_frame *)

\* _recv_frame run to its return on a buffer that already holds `buf` (every
\* _read_exact is served from self.buffer, line 308): the frame returned and
\* what is left in the buffer. "short" if the buffer runs out first.
RECURSIVE RunRecvFrame(_, _)
RunRecvFrameOn(step, rest) ==
    IF step.done
    THEN [short |-> FALSE, msg |-> step.msg, rest |-> rest]
    ELSE RunRecvFrame(step.rf, rest)

RunRecvFrame(r, buf) ==
    IF Len(buf) < r.need
    THEN [short |-> TRUE, msg |-> NoMessage, rest |-> buf]
    ELSE RunRecvFrameOn(RecvFrameStep(r, SubSeq(buf, 1, r.need)),
                        SubSeq(buf, r.need + 1, Len(buf)))

MaxSeed == 1

PayloadLens == {0, 1, 125, 126, 65535, 65536}

\* a payload of n bytes that differ from their neighbours
PatternPayload(n, seed) == [i \in 1..n |-> (i * 37 + seed * 101) % 256] \o <<>>

\* values os.urandom(4) may return
MaskKeys == {<<129, 126, 0, 136>>, <<255, 0, 85, 170>>}

Opcodes == 0..15

NoCodecOut ==
    [frameLen |-> -1, head |-> <<>>, short |-> FALSE, opcode |-> -1, length |-> -1,
     diff |-> -1, rest |-> -1]

\* number of positions at which two byte strings differ, -1 if their lengths differ
Diff(a, b) ==
    IF Len(a) # Len(b) THEN -1
    ELSE Cardinality({i \in 1..Len(a) : a[i] # b[i]})

CodecInit ==
    /\ pc = "encode"
    /\ codecIn \in [len : PayloadLens, seed : 0..MaxSeed, opcode : Opcodes, key : MaskKeys]
    /\ codecOut = NoCodecOut
    /\ rawResponse = NoRawResponse
    /\ cfg = [url |-> [scheme |-> "ws", host |-> "localhost"], user |-> <<>>,
              token |-> <<>>, description |-> <<>>, window |-> 0]
    /\ key = ""
    /\ sock = "sock"
    /\ osSock = "open"
    /\ buffer = <<>>
    /\ response = NoResponse
    /\ peerStream = <<>>
    /\ peerFrames = <<>>
    /\ now = 0
    /\ end_time = 0
    /\ timeout = 1
    /\ rf = IdleRf
    /\ message = NoMessage
    /\ sendLog = <<>>
    /\ stdout = <<>>
    /\ dispatched = <<>>
    /\ exc = "none"
    /\ trace = NoTrace

\* What the harness keeps of a frame and of the message decoded from it: the
\* lengths, the first 14 bytes of the frame (header, length field and mask key
\* fit in them) and the comparison with the input payload.
CodecResult(payload, frame, got) ==
    [frameLen |-> Len(frame),
     head |-> SubSeq(frame, 1, Min(14, Len(frame))),
     short |-> got.short,
     opcode |-> got.msg.opcode,
     length |-> Len(got.msg.payload),
     diff |-> Diff(got.msg.payload, payload),
     rest |-> Len(got.rest)]

\* self.buffer = frame; _recv_frame()
CodecDecode(payload, frame) ==
    CodecResult(payload, frame, RunRecvFrame(StartRecvFrame, frame))

\* frame = _encode_frame(payload, opcode) with the mask key os.urandom drew,
\* then the frame is decoded from the buffer.
CodecRoundTrip ==
    /\ pc = "encode"
    /\ codecOut' = CodecDecode(PatternPayload(codecIn.len, codecIn.seed),
                               EncodeFrame(PatternPayload(codecIn.len, codecIn.seed),
                                           codecIn.opcode, codecIn.key))
    /\ pc' = "decoded"
    /\ UNCHANGED <<cfg, key, sock, buffer, osSock, response, peerStream, peerFrames,
                   now, end_time, timeout, rf, message, sendLog, stdout, dispatched,
                   exc, trace, codecIn, rawResponse>>

CodecNext == CodecRoundTrip

CodecSpec == CodecInit /\ [][CodecNext]_vars

\* C1: whatever payload (lengths 0, 1, 125, 126, 65535, 65536), opcode 0..15
\* and mask key _encode_frame was given, _recv_frame fed with the encoded bytes
\* returns exactly (opcode, payload): it does not run short, the opcode is the
\* one encoded, the payload has the same length and differs at no position,
\* and the buffer is empty afterwards.
C1_RoundTrip ==
    pc = "decoded" =>
        /\ ~codecOut.short
        /\ codecOut.opcode = codecIn.opcode
        /\ codecOut.length = codecIn.len
        /\ codecOut.diff = 0
        /\ codecOut.rest = 0

\* a 65536-byte payload under opcode 15 has made the round trip
C1_Witness ==
    /\ pc = "decoded"
    /\ codecIn.len = 65536
    /\ codecIn.opcode = 15
    /\ codecIn.key = <<129, 126, 0, 136>>
    /\ codecOut.length = 65536
    /\ codecOut.diff = 0

----------------------------------------------------------------------------
(* Configuration *)

\* ticks in a second: a tick is the 0.1 s of line 211
TicksPerSecond == 10

\* max(0.1, ...) of line 211, in ticks
PollGranularity == 1

\* socket.create_connection(..., timeout=10), in ticks
ConnectTimeout == 100

\* cfg.reply_window, in seconds, is 0..MaxWindow
MaxWindow == 1

\* the peer sends at most MaxFrames frames
MaxFrames == 2

\* urlparse(self.url): the scheme and the host name
Urls ==
    {[scheme |-> "ws", host |-> "localhost"],
     [scheme |-> "http", host |-> "localhost"],
     [scheme |-> "ws", host |-> ""]}

\* "u", "t" and a description with a character JSON escapes: a"
Users == {<<117>>}
Tokens == {<<116>>}
Descriptions == {<<97, 34>>}

Configs ==
    [url : Urls, user : Users, token : Tokens, description : Descriptions,
     window : 0..MaxWindow]

\* This variant writes the token before the user.
AuthMessage_Swapped(c) == c.token \o <<58>> \o c.user

\* f"{cfg.user}:{cfg.token}", UTF-8 encoded (line 356, line 200)
AuthMessage(c) == c.user \o <<58>> \o c.token

\* json.dumps(..., ensure_ascii=False) on a string of printable ASCII and
\* newlines: the quote, the backslash and the newline are escaped
RECURSIVE JsonEscape(_)
JsonEscape(str) ==
    IF Len(str) = 0 THEN <<>>
    ELSE (CASE Head(str) = 34 -> <<92, 34>>
            [] Head(str) = 92 -> <<92, 92>>
            [] Head(str) = 10 -> <<92, 110>>
            [] OTHER -> <<Head(str)>>) \o JsonEscape(Tail(str))

\* json.dumps({"type": "sensory", "text": description}, ensure_ascii=False),
\* UTF-8 encoded (line 359, lines 203-204, line 200)
SensoryJson(c) ==
    <<123, 34, 116, 121, 112, 101, 34, 58, 32, 34, 115, 101, 110, 115, 111, 114, 121,
      34, 44, 32, 34, 116, 101, 120, 116, 34, 58, 32, 34>>
    \o JsonEscape(c.description) \o <<34, 125>>

\* payload.decode("utf-8", errors="replace") on payloads whose bytes >= 128
\* stand alone (none starts a valid multi-byte sequence): each becomes U+FFFD
DecodeReplace(payload) ==
    [i \in 1..Len(payload) |-> IF payload[i] >= 128 THEN 65533 ELSE payload[i]] \o <<>>

----------------------------------------------------------------------------
(* The peer *)

\* A frame as the wire format lays it out: FIN and opcode, mask flag and 7-bit
\* length, the length field of the chosen tier (7, 16 or 64 bits), the mask
\* key if any (mask = <<>> for none), the payload XORed with it.
WireFrame(opcode, payload, mask, tier) ==
    LET mask_bit == IF Len(mask) = 0 THEN 0 ELSE 128
        lenfield == CASE tier = 7 -> <<mask_bit + Len(payload)>>
                      [] tier = 16 -> <<mask_bit + 126>> \o PackBE(Len(payload), 2)
                      [] tier = 64 -> <<mask_bit + 127>> \o PackBE(Len(payload), 8)
    IN  <<128 + opcode>> \o lenfield \o mask
        \o (IF Len(mask) = 0 THEN payload ELSE MaskBytes(payload, mask))

PeerFrame(opcode, payload, mask, tier) ==
    [opcode |-> opcode, payload |-> payload,
     bytes |-> WireFrame(opcode, payload, mask, tier)]

\* The frames the peer may send: a text whose payload reads like a close
\* frame's header, a ping, a close, a masked text with a 16-bit length, an
\* empty pong with a 64-bit length.
PeerFrameSet ==
    {PeerFrame(1, <<136, 0>>, <<>>, 7),
     PeerFrame(9, <<112>>, <<>>, 7),
     PeerFrame(8, <<>>, <<>>, 7),
     PeerFrame(1, <<97>>, <<255, 0, 85, 170>>, 16),
     PeerFrame(10, <<>>, <<>>, 64)}

Scripts == UNION {[1..n -> PeerFrameSet] : n \in 0..MaxFrames}

RECURSIVE Flatten(_)
Flatten(script) ==
    IF Len(script) = 0 THEN <<>>
    ELSE Head(script).bytes \o Flatten(Tail(script))

Meaning(script) ==
    [i \in 1..Len(script) |-> [opcode |-> script[i].opcode, payload |-> script[i].payload]]
    \o <<>>

\* value of base64.b64encode(os.urandom(16)) in the runs explored
HandshakeKeys == {"dGhlIHNhbXBsZSBub25jZQ=="}

GUID == "258EAFA5-E914-47DA-95CA-C5AB0DC85B11"

\* base64(SHA-1(key + GUID)) (lines 188-190), tabulated for the keys above
\* and GUID
ExpectedAccept(k) ==
    CASE k = "dGhlIHNhbXBsZSBub25jZQ==" -> "s3pPLMBiTxaQ9kYGzzhZRbK+xOo="
      [] k = "AAAAAAAAAAAAAAAAAAAAAA==" -> "ICX+Yqv66kxgM0FcWaLWlFLwTAI="

HeaderLine(name, text) == [colon |-> TRUE, name |-> name, pad |-> 1, text |-> text]

\* The header blocks the peer may answer a handshake carrying key k with.
HeaderBlocks(k) ==
    {<<HeaderLine("Upgrade", "websocket"), HeaderLine("Sec-WebSocket-Accept", ExpectedAccept(k))>>,
     <<HeaderLine("SEC-WEBSOCKET-ACCEPT", ExpectedAccept(k))>>,
     <<HeaderLine("Sec-WebSocket-Accept", ExpectedAccept("AAAAAAAAAAAAAAAAAAAAAA=="))>>,
     <<HeaderLine("Sec-WebSocket-Accept", ExpectedAccept(k)),
       HeaderLine("sec-websocket-accept", "")>>,
     <<[colon |-> FALSE, name |-> "Sec-WebSocket-Accept", pad |-> 0, text |-> ExpectedAccept(k)]>>,
     <<[colon |-> FALSE, name |-> "garbage", pad |-> 0, text |-> ""],
       HeaderLine("Sec-WebSocket-Accept", ExpectedAccept(k))>>,
     <<HeaderLine("Upgrade", "websocket")>>,
     <<>>}

\* The status lines, split at white space: 101, 101 written "0101", 200, a
\* line with no code, a non-numeric code, and the empty line of an empty
\* response.
StatusLines ==
    {<<"HTTP/1.1", "101", "Switching", "Protocols">>,
     <<"HTTP/1.1", "0101">>,
     <<"HTTP/1.1", "200", "OK">>,
     <<"HTTP/1.1">>,
     <<"HTTP/1.1", "abc">>,
     <<>>}

Responses(k) == [status_line : StatusLines, header_lines : HeaderBlocks(k)]

----------------------------------------------------------------------------
(* connect and _read_http_response *)

\* int(word): the decimal strings among the status words; anything else is
\* the ValueError of line 251
IsInt(word) == word \in {"101", "0101", "200"}

IntOf(word) ==
    CASE word = "101" -> 101
      [] word = "0101" -> 101
      [] word = "200" -> 200

\* name.decode(...).lower() on the header names above
Lower(name) ==
    CASE name \in {"Sec-WebSocket-Accept", "SEC-WEBSOCKET-ACCEPT", "sec-websocket-accept"}
           -> "sec-websocket-accept"
      [] name = "Upgrade" -> "upgrade"
      [] OTHER -> name

\* This variant takes a status line without a code for a 101.
ParseStatus_NoSentinel(status_line) ==
    IF Len(status_line) >= 2 /\ IsInt(status_line[2])
    THEN IntOf(status_line[2])
    ELSE IF Len(status_line) < 2 THEN 101 ELSE -1

\* lines 249-252
ParseStatus(status_line) ==
    IF Len(status_line) >= 2 /\ IsInt(status_line[2])
    THEN IntOf(status_line[2])
    ELSE -1

\* lines 254-259 followed by headers.get(name): the stripped value of the
\* last line that has a colon and whose lowered name is `name`, else None
RECURSIVE HeaderGet(_, _)
HeaderGet(lines, name) ==
    IF Len(lines) = 0 THEN NoneValue
    ELSE LET last == lines[Len(lines)]
         IN  IF last.colon /\ Lower(last.name) = name
             THEN [present |-> TRUE, text |-> last.text]
             ELSE HeaderGet(SubSeq(lines, 1, Len(lines) - 1), name)

\* _read_http_response, and line 191
ReadHttpResponse(resp) ==
    [status |-> ParseStatus(resp.status_line),
     accept |-> HeaderGet(resp.header_lines, "sec-websocket-accept")]

UrlOk(url) == url.scheme \in {"ws", "wss"} /\ url.host # ""

\* This variant rejects only when both the status and the accept value are
\* wrong ("and" for the "or" of line 192).
HandshakeOk_And(parsed, k) ==
    ~(parsed.status # 101 /\ parsed.accept # [present |-> TRUE, text |-> ExpectedAccept(k)])

\* line 192, negated: the handshake is accepted
HandshakeOk(parsed, k) ==
    ~(parsed.status # 101 \/ parsed.accept # [present |-> TRUE, text |-> ExpectedAccept(k)])

\* connect() raises ValueError on the scheme or the host (lines 154-159);
\* main() exits (line 354).
ConnectBadUrl ==
    /\ pc = "connect"
    /\ ~UrlOk(cfg.url)
    /\ exc' = "ValueError"
    /\ pc' = "exit_fail"
    /\ UNCHANGED <<cfg, key, sock, buffer, osSock, response, peerStream, peerFrames,
                   now, end_time, timeout, rf, message, sendLog, stdout, dispatched,
                   trace, codecIn, codecOut, rawResponse>>

\* socket.create_connection raises (line 177): no socket was made.
ConnectRefused ==
    /\ pc = "connect"
    /\ UrlOk(cfg.url)
    /\ \E k \in HandshakeKeys : key' = k
    /\ exc' = "OSError"
    /\ pc' = "exit_fail"
    /\ UNCHANGED <<cfg, sock, buffer, osSock, response, peerStream, peerFrames,
                   now, end_time, timeout, rf, message, sendLog, stdout, dispatched,
                   trace, codecIn, codecOut, rawResponse>>

\* The socket is made, then sendall of the request (line 183) or a recv of
\* the response (line 241) raises OSError; connect() lets it through.
ConnectIOError ==
    /\ pc = "connect"
    /\ UrlOk(cfg.url)
    /\ \E k \in HandshakeKeys : key' = k
    /\ osSock' = "open"
    /\ timeout' = ConnectTimeout
    /\ exc' = "OSError"
    /\ pc' = "exit_fail"
    /\ UNCHANGED <<cfg, sock, buffer, response, peerStream, peerFrames,
                   now, end_time, rf, message, sendLog, stdout, dispatched,
                   trace, codecIn, codecOut, rawResponse>>

\* This variant forgets the bytes that came in with the handshake response.
ConnectHandshake_DropsLeftover(k, resp, script, cut) ==
    /\ pc = "connect"
    /\ UrlOk(cfg.url)
    /\ key' = k
    /\ osSock' = "open"
    /\ timeout' = ConnectTimeout
    /\ LET parsed == ReadHttpResponse(resp)
       IN  /\ response' = parsed
           /\ buffer' = <<>>
           /\ peerStream' = SubSeq(Flatten(script), cut + 1, Len(Flatten(script)))
           /\ peerFrames' = Meaning(script)
           /\ trace' = [trace EXCEPT !.received = SubSeq(Flatten(script), 1, cut)]
           /\ IF HandshakeOk(parsed, k)
              THEN /\ sock' = "sock"
                   /\ pc' = "send_auth"
                   /\ exc' = "none"
              ELSE /\ sock' = "None"
                   /\ pc' = "exit_fail"
                   /\ exc' = "RuntimeError"
    /\ UNCHANGED <<cfg, now, end_time, rf, message, sendLog, stdout, dispatched,
                   codecIn, codecOut, rawResponse>>

\* The socket is made, the request sent and the response read: the peer
\* answers resp and goes on to send script, of which the first cut bytes
\* came in with the response (lines 177-195).
ConnectHandshake(k, resp, script, cut) ==
    /\ pc = "connect"
    /\ UrlOk(cfg.url)
    /\ key' = k
    /\ osSock' = "open"
    /\ timeout' = ConnectTimeout
    /\ LET parsed == ReadHttpResponse(resp)
       IN  /\ response' = parsed
           /\ buffer' = SubSeq(Flatten(script), 1, cut)
           /\ peerStream' = SubSeq(Flatten(script), cut + 1, Len(Flatten(script)))
           /\ peerFrames' = Meaning(script)
           /\ trace' = [trace EXCEPT !.received = SubSeq(Flatten(script), 1, cut)]
           /\ IF HandshakeOk(parsed, k)
              THEN /\ sock' = "sock"
                   /\ pc' = "send_auth"
                   /\ exc' = "none"
              ELSE /\ sock' = "None"
                   /\ pc' = "exit_fail"
                   /\ exc' = "RuntimeError"
    /\ UNCHANGED <<cfg, now, end_time, rf, message, sendLog, stdout, dispatched,
                   codecIn, codecOut, rawResponse>>

LeftoverCuts(script) == {0, 1, Len(Flatten(script))} \cap 0..Len(Flatten(script))

Connect ==
    /\ pc = "connect"
    /\ \E k \in HandshakeKeys : \E resp \in Responses(k) : \E script \in Scripts :
         \E cut \in LeftoverCuts(script) : ConnectHandshake(k, resp, script, cut)

----------------------------------------------------------------------------
(* send_text, send_json *)

\* one sendall of a frame, as the log keeps it
Sent(payload, opcode, mask_key, ok) ==
    [frame |-> EncodeFrame(payload, opcode, mask_key), payload |-> payload,
     opcode |-> opcode, key |-> mask_key, ok |-> ok]

\* This variant encodes and writes without looking at self.sock.
SendText_NoGuard(at, text, next) ==
    /\ pc = at
    /\ \E mask_key \in MaskKeys, ok \in BOOLEAN :
         /\ sendLog' = Append(sendLog, Sent(text, 1, mask_key, ok))
         /\ exc' = IF ok THEN exc ELSE "OSError"
         /\ pc' = IF ok THEN next ELSE "finally"
    /\ UNCHANGED <<cfg, key, sock, buffer, osSock, response, peerStream, peerFrames,
                   now, end_time, timeout, rf, message, stdout, dispatched,
                   trace, codecIn, codecOut, rawResponse>>

\* send_text(text) called from main()'s try block at pc = at: RuntimeError
\* if not connected, else the frame is encoded under a fresh mask key and
\* written; sendall either succeeds or raises OSError, which ends the try
\* block (lines 197-201, 362-363).
SendText(at, text, next) ==
    /\ pc = at
    /\ IF sock = "None"
       THEN /\ exc' = "RuntimeError"
            /\ pc' = "finally"
            /\ UNCHANGED sendLog
       ELSE \E mask_key \in MaskKeys, ok \in BOOLEAN :
              /\ sendLog' = Append(sendLog, Sent(text, 1, mask_key, ok))
              /\ exc' = IF ok THEN exc ELSE "OSError"
              /\ pc' = IF ok THEN next ELSE "finally"
    /\ UNCHANGED <<cfg, key, sock, buffer, osSock, response, peerStream, peerFrames,
                   now, end_time, timeout, rf, message, stdout, dispatched,
                   trace, codecIn, codecOut, rawResponse>>

\* client.send_text(auth_message), line 358
SendAuth == SendText("send_auth", AuthMessage(cfg), "send_json")

\* client.send_json({"type": "sensory", "text": description}), line 359
SendJson == SendText("send_json", SensoryJson(cfg), "read_messages")

----------------------------------------------------------------------------
(* read_messages *)

\* lines 207-209
ReadMessages ==
    /\ pc = "read_messages"
    /\ IF sock = "None"
       THEN /\ pc' = "finally"
            /\ trace' = [trace EXCEPT !.loopExit = "not_connected"]
            /\ UNCHANGED end_time
       ELSE /\ end_time' = now + cfg.window * TicksPerSecond
            /\ pc' = "read_loop"
            /\ UNCHANGED trace
    /\ UNCHANGED <<cfg, key, sock, buffer, osSock, response, peerStream, peerFrames,
                   now, timeout, rf, message, sendLog, stdout, dispatched, exc,
                   codecIn, codecOut, rawResponse>>

\* This variant polls with the granularity as its timeout instead of the
\* remaining budget.
LoopCheck_FixedPoll ==
    /\ pc = "read_loop"
    /\ IF now < end_time
       THEN /\ timeout' = PollGranularity
            /\ rf' = StartRecvFrame
            /\ pc' = "recv_frame"
            /\ UNCHANGED trace
       ELSE /\ pc' = "finally"
            /\ trace' = [trace EXCEPT !.loopExit = "deadline"]
            /\ UNCHANGED <<timeout, rf>>
    /\ UNCHANGED <<cfg, key, sock, buffer, osSock, response, peerStream, peerFrames,
                   now, end_time, message, sendLog, stdout, dispatched, exc,
                   codecIn, codecOut, rawResponse>>

\* lines 210-213 and 266-268: the deadline test, the remaining budget, the
\* socket timeout, and _recv_frame up to its first read
LoopCheck ==
    /\ pc = "read_loop"
    /\ IF now < end_time
       THEN /\ timeout' = Max(PollGranularity, end_time - now)
            /\ rf' = StartRecvFrame
            /\ pc' = "recv_frame"
            /\ UNCHANGED trace
       ELSE /\ pc' = "finally"
            /\ trace' = [trace EXCEPT !.loopExit = "deadline"]
            /\ UNCHANGED <<timeout, rf>>
    /\ UNCHANGED <<cfg, key, sock, buffer, osSock, response, peerStream, peerFrames,
                   now, end_time, message, sendLog, stdout, dispatched, exc,
                   codecIn, codecOut, rawResponse>>

\* how long the peer lets a recv wait before bytes come: not at all, or
\* until just before the socket timeout
Delays == {0, timeout - 1}

Recv ==
    /\ pc = "recv_frame"
    /\ \E k \in 1..Max(1, rf.need - Len(buffer)), d \in Delays : SockRecv(k, d)

\* This variant throws away the bytes a timed-out read had gathered.
SockRecvTimeout_DropsPartial ==
    /\ pc = "recv_frame"
    /\ Len(buffer) < rf.need
    /\ now' = now + timeout
    /\ rf' = IdleRf
    /\ buffer' = <<>>
    /\ pc' = "read_loop"
    /\ trace' = [trace EXCEPT !.midTimeout = @ \/ rf.stage # "header",
                              !.hdrTimeout = @ \/ rf.stage = "header",
                              !.hdrPartial = @ \/ (rf.stage = "header" /\ Len(buffer) = 1)]
    /\ UNCHANGED <<cfg, key, sock, osSock, response, peerStream, peerFrames,
                   end_time, timeout, message, sendLog, stdout, dispatched, exc,
                   codecIn, codecOut, rawResponse>>

\* sock.recv gets nothing within the socket timeout and raises
\* socket.timeout. In the header read _recv_frame returns None (lines
\* 269-270) and read_messages continues (216-217); in a later read the
\* exception leaves _recv_frame and read_messages continues (214-215). The
\* bytes read so far stay in self.buffer.
SockRecvTimeout ==
    /\ pc = "recv_frame"
    /\ Len(buffer) < rf.need
    /\ now' = now + timeout
    /\ rf' = IdleRf
    /\ pc' = "read_loop"
    /\ trace' = [trace EXCEPT !.midTimeout = @ \/ rf.stage # "header",
                              !.hdrTimeout = @ \/ rf.stage = "header",
                              !.hdrPartial = @ \/ (rf.stage = "header" /\ Len(buffer) = 1)]
    /\ UNCHANGED <<cfg, key, sock, buffer, osSock, response, peerStream, peerFrames,
                   end_time, timeout, message, sendLog, stdout, dispatched, exc,
                   codecIn, codecOut, rawResponse>>

\* This variant treats the closed connection as a timeout: the loop goes on.
SockRecvEOF_AsTimeout ==
    /\ pc = "recv_frame"
    /\ Len(buffer) < rf.need
    /\ \E d \in Delays : now' = now + d
    /\ peerStream' = <<>>
    /\ rf' = IdleRf
    /\ pc' = "read_loop"
    /\ trace' = [trace EXCEPT !.loopExit = "error"]
    /\ UNCHANGED <<cfg, key, sock, buffer, osSock, response, peerFrames,
                   end_time, timeout, message, sendLog, stdout, dispatched, exc,
                   codecIn, codecOut, rawResponse>>

\* The peer has closed: sock.recv returns b"" and _read_exact raises
\* ConnectionError (lines 305-306), which leaves read_messages and ends the
\* try block of main().
SockRecvEOF ==
    /\ pc = "recv_frame"
    /\ Len(buffer) < rf.need
    /\ \E d \in Delays : now' = now + d
    /\ peerStream' = <<>>
    /\ rf' = IdleRf
    /\ exc' = "ConnectionError"
    /\ pc' = "finally"
    /\ trace' = [trace EXCEPT !.loopExit = "error"]
    /\ UNCHANGED <<cfg, key, sock, buffer, osSock, response, peerFrames,
                   end_time, timeout, message, sendLog, stdout, dispatched,
                   codecIn, codecOut, rawResponse>>

\* lines 219-221: a text frame is printed
DispatchText ==
    /\ pc = "dispatch"
    /\ message.opcode = 1
    /\ stdout' = Append(stdout, DecodeReplace(message.payload))
    /\ dispatched' = Append(dispatched, message)
    /\ message' = NoMessage
    /\ pc' = "read_loop"
    /\ UNCHANGED <<cfg, key, sock, buffer, osSock, response, peerStream, peerFrames,
                   now, end_time, timeout, rf, sendLog, exc, trace, codecIn, codecOut, rawResponse>>

\* This variant answers a ping with an empty pong.
DispatchPing_EmptyPong ==
    /\ pc = "dispatch"
    /\ message.opcode = 9
    /\ IF sock = "None"
       THEN UNCHANGED sendLog
       ELSE \E mask_key \in MaskKeys, ok \in BOOLEAN :
              sendLog' = Append(sendLog, Sent(<<>>, 10, mask_key, ok))
    /\ dispatched' = Append(dispatched, message)
    /\ message' = NoMessage
    /\ pc' = "read_loop"
    /\ UNCHANGED <<cfg, key, sock, buffer, osSock, response, peerStream, peerFrames,
                   now, end_time, timeout, rf, stdout, exc, trace, codecIn, codecOut, rawResponse>>

\* lines 222-223 and _send_pong (291-298): the pong is encoded and written;
\* an OSError of sendall is swallowed
DispatchPing ==
    /\ pc = "dispatch"
    /\ message.opcode = 9
    /\ IF sock = "None"
       THEN UNCHANGED sendLog
       ELSE \E mask_key \in MaskKeys, ok \in BOOLEAN :
              sendLog' = Append(sendLog, Sent(message.payload, 10, mask_key, ok))
    /\ dispatched' = Append(dispatched, message)
    /\ message' = NoMessage
    /\ pc' = "read_loop"
    /\ UNCHANGED <<cfg, key, sock, buffer, osSock, response, peerStream, peerFrames,
                   now, end_time, timeout, rf, stdout, exc, trace, codecIn, codecOut, rawResponse>>

\* This variant ignores the close frame and goes on polling.
DispatchClose_Continue ==
    /\ pc = "dispatch"
    /\ message.opcode = 8
    /\ dispatched' = Append(dispatched, message)
    /\ message' = NoMessage
    /\ pc' = "read_loop"
    /\ UNCHANGED <<cfg, key, sock, buffer, osSock, response, peerStream, peerFrames,
                   now, end_time, timeout, rf, sendLog, stdout, exc, trace,
                   codecIn, codecOut, rawResponse>>

\* This variant answers the close frame with a close frame before it breaks
\* the loop.
DispatchClose_Acks ==
    /\ pc = "dispatch"
    /\ message.opcode = 8
    /\ \E mask_key \in MaskKeys, ok \in BOOLEAN :
         sendLog' = Append(sendLog, Sent(message.payload, 8, mask_key, ok))
    /\ dispatched' = Append(dispatched, message)
    /\ message' = NoMessage
    /\ pc' = "finally"
    /\ trace' = [trace EXCEPT !.loopExit = "close"]
    /\ UNCHANGED <<cfg, key, sock, buffer, osSock, response, peerStream, peerFrames,
                   now, end_time, timeout, rf, stdout, exc, codecIn, codecOut, rawResponse>>

\* lines 224-225: a close frame breaks the loop
DispatchClose ==
    /\ pc = "dispatch"
    /\ message.opcode = 8
    /\ dispatched' = Append(dispatched, message)
    /\ message' = NoMessage
    /\ pc' = "finally"
    /\ trace' = [trace EXCEPT !.loopExit = "close"]
    /\ UNCHANGED <<cfg, key, sock, buffer, osSock, response, peerStream, peerFrames,
                   now, end_time, timeout, rf, sendLog, stdout, exc, codecIn, codecOut, rawResponse>>

\* This variant prints the payload of every frame that is no ping and no
\* close.
DispatchOther_AsText ==
    /\ pc = "dispatch"
    /\ message.opcode \notin {1, 9, 8}
    /\ stdout' = Append(stdout, DecodeReplace(message.payload))
    /\ dispatched' = Append(dispatched, message)
    /\ message' = NoMessage
    /\ pc' = "read_loop"
    /\ UNCHANGED <<cfg, key, sock, buffer, osSock, response, peerStream, peerFrames,
                   now, end_time, timeout, rf, sendLog, exc, trace,
                   codecIn, codecOut, rawResponse>>

\* any other opcode falls through the if/elif chain of lines 220-225
DispatchOther ==
    /\ pc = "dispatch"
    /\ message.opcode \notin {1, 9, 8}
    /\ dispatched' = Append(dispatched, message)
    /\ message' = NoMessage
    /\ pc' = "read_loop"
    /\ UNCHANGED <<cfg, key, sock, buffer, osSock, response, peerStream, peerFrames,
                   now, end_time, timeout, rf, sendLog, stdout, exc, trace,
                   codecIn, codecOut, rawResponse>>

----------------------------------------------------------------------------
(* close, and the end of main() *)

\* This variant sends the close frame outside any try: a failed send leaves
\* close() at once, the socket still open.
Close_Unprotected ==
    /\ pc = "finally"
    /\ IF sock = "None"
       THEN UNCHANGED <<sendLog, osSock, sock, exc>>
       ELSE \E mask_key \in MaskKeys, ok \in BOOLEAN :
              /\ sendLog' = Append(sendLog, Sent(<<>>, 8, mask_key, ok))
              /\ osSock' = IF ok THEN "closed" ELSE osSock
              /\ sock' = IF ok THEN "None" ELSE sock
              /\ exc' = IF ok THEN exc ELSE "OSError"
    /\ pc' = IF exc' = "none" THEN "exit_ok" ELSE "exit_fail"
    /\ UNCHANGED <<cfg, key, buffer, response, peerStream, peerFrames, now, end_time,
                   timeout, rf, message, stdout, dispatched, trace,
                   codecIn, codecOut, rawResponse>>

\* This variant sends the close frame and closes without looking at
\* self.sock.
Close_Unguarded ==
    /\ pc = "finally"
    /\ \E mask_key \in MaskKeys, ok \in BOOLEAN :
         sendLog' = Append(sendLog, Sent(<<>>, 8, mask_key, ok))
    /\ osSock' = "closed"
    /\ sock' = "None"
    /\ pc' = IF exc = "none" THEN "exit_ok" ELSE "exit_fail"
    /\ UNCHANGED <<cfg, key, buffer, response, peerStream, peerFrames, now, end_time,
                   timeout, rf, message, stdout, dispatched, exc, trace,
                   codecIn, codecOut, rawResponse>>

\* finally: client.close() (lines 364-365, 227-236), then main() returns, or
\* exits through sys.exit if the try block raised (lines 362-363).
Close ==
    /\ pc = "finally"
    /\ IF sock = "None"
       THEN UNCHANGED <<sendLog, osSock, sock>>
       ELSE /\ \E mask_key \in MaskKeys, ok \in BOOLEAN :
                 sendLog' = Append(sendLog, Sent(<<>>, 8, mask_key, ok))
            /\ osSock' = "closed"
            /\ sock' = "None"
    /\ pc' = IF exc = "none" THEN "exit_ok" ELSE "exit_fail"
    /\ UNCHANGED <<cfg, key, buffer, response, peerStream, peerFrames, now, end_time,
                   timeout, rf, message, stdout, dispatched, exc, trace,
                   codecIn, codecOut, rawResponse>>

----------------------------------------------------------------------------
(* The program *)

\* main() after client = SimpleWebSocketClient(cfg.ws_url), line 350
Init ==
    /\ pc = "connect"
    /\ cfg \in Configs
    /\ key = ""
    /\ sock = "None"
    /\ buffer = <<>>
    /\ osSock = "none"
    /\ response = NoResponse
    /\ peerStream = <<>>
    /\ peerFrames = <<>>
    /\ now = 0
    /\ end_time = 0
    /\ timeout = 0
    /\ rf = IdleRf
    /\ message = NoMessage
    /\ sendLog = <<>>
    /\ stdout = <<>>
    /\ dispatched = <<>>
    /\ exc = "none"
    /\ trace = NoTrace
    /\ codecIn = [len |-> 0, seed |-> 0, opcode |-> 0, key |-> <<0, 0, 0, 0>>]
    /\ codecOut = NoCodecOut
    /\ rawResponse = NoRawResponse

Next ==
    \/ ConnectBadUrl
    \/ ConnectRefused
    \/ Connect
    \/ ConnectIOError
    \/ SendAuth
    \/ SendJson
    \/ ReadMessages
    \/ LoopCheck
    \/ ReadExactReturn
    \/ Recv
    \/ SockRecvTimeout
    \/ SockRecvEOF
    \/ DispatchText
    \/ DispatchPing
    \/ DispatchClose
    \/ DispatchOther
    \/ Close

Spec == Init /\ [][Next]_vars

----------------------------------------------------------------------------
(* _recv_frame called again and again on an open connection *)

\* the caller stops calling _recv_frame once the clock shows MaxPolls ticks
MaxPolls == 3

\* An open connection whose peer sends script, the first cut bytes of it
\* already in self.buffer.
RecvInit ==
    /\ pc = "read_loop"
    /\ cfg = [url |-> [scheme |-> "ws", host |-> "localhost"], user |-> <<117>>,
              token |-> <<116>>, description |-> <<97, 34>>, window |-> 0]
    /\ key \in HandshakeKeys
    /\ sock = "sock"
    /\ osSock = "open"
    /\ response = [status |-> 101, accept |-> [present |-> TRUE, text |-> ExpectedAccept(key)]]
    /\ \E script \in Scripts : \E cut \in LeftoverCuts(script) :
         /\ buffer = SubSeq(Flatten(script), 1, cut)
         /\ peerStream = SubSeq(Flatten(script), cut + 1, Len(Flatten(script)))
         /\ peerFrames = Meaning(script)
         /\ trace = [NoTrace EXCEPT !.received = SubSeq(Flatten(script), 1, cut)]
    /\ now = 0
    /\ end_time = 0
    /\ timeout = 0
    /\ rf = IdleRf
    /\ message = NoMessage
    /\ sendLog = <<>>
    /\ stdout = <<>>
    /\ dispatched = <<>>
    /\ exc = "none"
    /\ codecIn = [len |-> 0, seed |-> 0, opcode |-> 0, key |-> <<0, 0, 0, 0>>]
    /\ codecOut = NoCodecOut
    /\ rawResponse = NoRawResponse

\* _recv_frame(timeout) with the shortest timeout read_messages uses, up to
\* its first read (lines 263-268). The caller calls again after a frame and
\* after None; it stops when _recv_frame raised socket.timeout, which a
\* timeout inside a frame does.
RecvFrameCall ==
    /\ pc = "read_loop"
    /\ now < MaxPolls
    /\ ~trace.midTimeout
    /\ timeout' = PollGranularity
    /\ rf' = StartRecvFrame
    /\ pc' = "recv_frame"
    /\ UNCHANGED <<cfg, key, sock, buffer, osSock, response, peerStream, peerFrames,
                   now, end_time, message, sendLog, stdout, dispatched, exc, trace,
                   codecIn, codecOut, rawResponse>>

\* _recv_frame returned (opcode, payload), line 289: the caller notes it and
\* calls again
RecvFrameReturn ==
    /\ pc = "dispatch"
    /\ dispatched' = Append(dispatched, message)
    /\ message' = NoMessage
    /\ pc' = "read_loop"
    /\ UNCHANGED <<cfg, key, sock, buffer, osSock, response, peerStream, peerFrames,
                   now, end_time, timeout, rf, sendLog, stdout, exc, trace,
                   codecIn, codecOut, rawResponse>>

RecvNext ==
    \/ RecvFrameCall
    \/ ReadExactReturn
    \/ Recv
    \/ SockRecvTimeout
    \/ RecvFrameReturn

RecvSpec == RecvInit /\ [][RecvNext]_vars

----------------------------------------------------------------------------
(* connect() on each response the peer may answer with *)

\* what follows the response on the stream: nothing, or one frame
HandshakeScripts == {script \in Scripts : Len(script) <= 1}

HandshakeInit ==
    /\ pc = "connect"
    /\ cfg = [url |-> [scheme |-> "ws", host |-> "localhost"], user |-> <<117>>,
              token |-> <<116>>, description |-> <<97, 34>>, window |-> 0]
    /\ key \in HandshakeKeys
    /\ rawResponse \in Responses(key)
    /\ sock = "None"
    /\ buffer = <<>>
    /\ osSock = "none"
    /\ response = NoResponse
    /\ peerStream = <<>>
    /\ peerFrames = <<>>
    /\ now = 0
    /\ end_time = 0
    /\ timeout = 0
    /\ rf = IdleRf
    /\ message = NoMessage
    /\ sendLog = <<>>
    /\ stdout = <<>>
    /\ dispatched = <<>>
    /\ exc = "none"
    /\ trace = NoTrace
    /\ codecIn = [len |-> 0, seed |-> 0, opcode |-> 0, key |-> <<0, 0, 0, 0>>]
    /\ codecOut = NoCodecOut

\* connect() with the key drawn, reading rawResponse (lines 177-195)
HandshakeConnect ==
    /\ pc = "connect"
    /\ \E script \in HandshakeScripts : \E cut \in LeftoverCuts(script) :
         ConnectHandshake(key, rawResponse, script, cut)

HandshakeNext == HandshakeConnect

HandshakeSpec == HandshakeInit /\ [][HandshakeNext]_vars

----------------------------------------------------------------------------
(* The client's methods called by a caller that goes on after main() would
   have ended, or that starts before connect() *)

\* The frames the peer may send here: a text, a ping, a close and a pong.
ClientFrameSet ==
    {PeerFrame(1, <<97>>, <<>>, 7),
     PeerFrame(9, <<>>, <<>>, 7),
     PeerFrame(8, <<>>, <<>>, 7),
     PeerFrame(10, <<112>>, <<>>, 7)}

ClientScripts == UNION {[1..n -> ClientFrameSet] : n \in 0..MaxFrames}

\* a response that is accepted and one that is rejected
ClientResponses(k) ==
    {[status_line |-> <<"HTTP/1.1", "101", "Switching", "Protocols">>,
      header_lines |-> <<HeaderLine("Sec-WebSocket-Accept", ExpectedAccept(k))>>],
     [status_line |-> <<"HTTP/1.1", "200", "OK">>,
      header_lines |-> <<HeaderLine("Sec-WebSocket-Accept", ExpectedAccept(k))>>]}

\* the calls a caller makes on the client after connect(): send_text,
\* send_json, read_messages, close, at the places main() makes them
ClientEntries == {"send_auth", "send_json", "read_messages", "finally"}

\* client = SimpleWebSocketClient(url); the first call is any of the methods
ClientInit ==
    /\ pc \in {"connect"} \cup ClientEntries
    /\ cfg \in {c \in Configs : UrlOk(c.url) /\ c.window = MaxWindow}
    /\ key = ""
    /\ sock = "None"
    /\ buffer = <<>>
    /\ osSock = "none"
    /\ response = NoResponse
    /\ peerStream = <<>>
    /\ peerFrames = <<>>
    /\ now = 0
    /\ end_time = 0
    /\ timeout = 0
    /\ rf = IdleRf
    /\ message = NoMessage
    /\ sendLog = <<>>
    /\ stdout = <<>>
    /\ dispatched = <<>>
    /\ exc = "none"
    /\ trace = NoTrace
    /\ codecIn = [len |-> 0, seed |-> 0, opcode |-> 0, key |-> <<0, 0, 0, 0>>]
    /\ codecOut = NoCodecOut
    /\ rawResponse = NoRawResponse

ClientConnect ==
    /\ pc = "connect"
    /\ \E k \in HandshakeKeys : \E resp \in ClientResponses(k) :
         \E script \in ClientScripts : \E cut \in LeftoverCuts(script) :
           ConnectHandshake(k, resp, script, cut)

\* Where main() would have ended, the caller catches what was raised and
\* makes another call on the same client object: one of the four methods, or
\* connect() if no socket was made yet.
ClientCall ==
    /\ pc \in {"exit_ok", "exit_fail"}
    /\ \E at \in ClientEntries \cup {"connect"} :
         /\ at = "connect" => osSock = "none"
         /\ pc' = at
    /\ exc' = "none"
    /\ UNCHANGED <<cfg, key, sock, buffer, osSock, response, peerStream, peerFrames,
                   now, end_time, timeout, rf, message, sendLog, stdout, dispatched,
                   trace, codecIn, codecOut, rawResponse>>

ClientNext ==
    \/ ClientConnect
    \/ ClientCall
    \/ SendAuth
    \/ SendJson
    \/ ReadMessages
    \/ LoopCheck
    \/ ReadExactReturn
    \/ Recv
    \/ SockRecvTimeout
    \/ SockRecvEOF
    \/ DispatchText
    \/ DispatchPing
    \/ DispatchClose
    \/ DispatchOther
    \/ Close

ClientSpec == ClientInit /\ [][ClientNext]_vars

----------------------------------------------------------------------------
(* main() against a peer that sends frames of the opcodes read_messages has
   no branch for *)

\* a continuation, a binary, a pong and frames with the reserved opcodes 3
\* and 11, with payloads that read like frame headers or text
OpcodeFrameSet ==
    {PeerFrame(0, <<1>>, <<>>, 7),
     PeerFrame(2, <<136, 0>>, <<>>, 7),
     PeerFrame(10, <<112>>, <<>>, 7),
     PeerFrame(3, <<>>, <<>>, 7),
     PeerFrame(11, <<137, 0>>, <<255, 0, 85, 170>>, 7)}

OpcodeScripts == UNION {[1..n -> OpcodeFrameSet] : n \in 0..MaxFrames}

OpcodeInit ==
    /\ pc = "connect"
    /\ cfg \in {c \in Configs : UrlOk(c.url) /\ c.window = MaxWindow}
    /\ key = ""
    /\ sock = "None"
    /\ buffer = <<>>
    /\ osSock = "none"
    /\ response = NoResponse
    /\ peerStream = <<>>
    /\ peerFrames = <<>>
    /\ now = 0
    /\ end_time = 0
    /\ timeout = 0
    /\ rf = IdleRf
    /\ message = NoMessage
    /\ sendLog = <<>>
    /\ stdout = <<>>
    /\ dispatched = <<>>
    /\ exc = "none"
    /\ trace = NoTrace
    /\ codecIn = [len |-> 0, seed |-> 0, opcode |-> 0, key |-> <<0, 0, 0, 0>>]
    /\ codecOut = NoCodecOut
    /\ rawResponse = NoRawResponse

OpcodeConnect ==
    /\ pc = "connect"
    /\ \E k \in HandshakeKeys : \E resp \in ClientResponses(k) :
         \E script \in OpcodeScripts : \E cut \in LeftoverCuts(script) :
           ConnectHandshake(k, resp, script, cut)

OpcodeNext ==
    \/ OpcodeConnect
    \/ SendAuth
    \/ SendJson
    \/ ReadMessages
    \/ LoopCheck
    \/ ReadExactReturn
    \/ Recv
    \/ SockRecvTimeout
    \/ SockRecvEOF
    \/ DispatchOther
    \/ Close

OpcodeSpec == OpcodeInit /\ [][OpcodeNext]_vars

----------------------------------------------------------------------------
(* Properties of the program *)

\* the frames that reached the socket, in order
Wire == SelectSeq(sendLog, LAMBDA e : e.ok)

IsPrefix(a, b) == Len(a) <= Len(b) /\ SubSeq(b, 1, Len(a)) = a

Terminal == pc \in {"exit_ok", "exit_fail"}

InReadMessages == pc \in {"read_loop", "recv_frame", "dispatch"}

\* C2: connect() leaves the client connected if and only if the parsed status
\* is exactly 101 and the Sec-WebSocket-Accept header equals the accept value
\* expected for the key sent; with a response parsed and either of the two
\* failing, connect() raises the handshake failure and the client stays
\* unconnected.
C2_HandshakeIff ==
    [][pc = "connect" =>
         LET good == /\ response'.status = 101
                     /\ response'.accept.present
                     /\ response'.accept.text = ExpectedAccept(key')
         IN  /\ (sock' = "sock") <=> good
             /\ (response' # NoResponse /\ ~good) =>
                    (exc' = "RuntimeError" /\ pc' = "exit_fail" /\ sock' = "None")
             /\ good => (pc' = "send_auth" /\ exc' = "none")]_vars

\* a 101 response whose accept value is present but wrong has been rejected
C2_Witness ==
    /\ pc = "exit_fail"
    /\ exc = "RuntimeError"
    /\ response.status = 101
    /\ response.accept.present
    /\ response.accept.text # ExpectedAccept(key)
    /\ sock = "None"

\* C3: in every terminal state of main() no socket that connect() opened
\* remains unreleased.
C3_SocketReleased == Terminal => osSock # "open"

\* C4: close() on a connected client releases the socket and leaves self.sock
\* None whether or not the close frame could be sent, whatever ended the try
\* block; the failure of that send is not propagated: the exit is the one the
\* try block decided.
C4_CloseReleases ==
    [][(pc = "finally" /\ sock = "sock") =>
          /\ sock' = "None"
          /\ osSock' = "closed"
          /\ exc' = exc
          /\ pc' = (IF exc = "none" THEN "exit_ok" ELSE "exit_fail")]_vars

\* close() ran after _read_exact raised ConnectionError, its close frame could
\* not be sent, and the socket is released
C4_Witness ==
    /\ pc = "exit_fail"
    /\ exc = "ConnectionError"
    /\ Len(sendLog) >= 3
    /\ sendLog[Len(sendLog)].opcode = 8
    /\ ~sendLog[Len(sendLog)].ok
    /\ osSock = "closed"
    /\ sock = "None"

\* C5 as claimed: a decoded ping with payload X puts exactly one pong frame
\* with payload X on the socket before the next decode, and nothing else
\* happens.
C5_PongSent ==
    [][(pc = "dispatch" /\ message.opcode = 9) =>
          /\ Len(Wire') = Len(Wire) + 1
          /\ RunRecvFrame(StartRecvFrame, Wire'[Len(Wire')].frame).msg
                 = [opcode |-> 10, payload |-> message.payload]
          /\ stdout' = stdout
          /\ pc' = "read_loop"]_vars

\* C5 amended: a decoded ping with payload X makes read_messages attempt
\* exactly one write, of a masked pong frame (opcode 0xA) whose unmasked
\* payload is X, before the next decode; the frame reaches the socket if and
\* only if that sendall succeeds, and its OSError is swallowed; nothing is
\* printed, no other frame is written, the connection stays as it is and the
\* loop continues.
C5_PongAttempted ==
    [][(pc = "dispatch" /\ message.opcode = 9) =>
          /\ Len(sendLog') = Len(sendLog) + 1
          /\ SubSeq(sendLog', 1, Len(sendLog)) = sendLog
          /\ LET e == sendLog'[Len(sendLog')]
                 got == RunRecvFrame(StartRecvFrame, e.frame)
             IN  /\ ~got.short
                 /\ got.rest = <<>>
                 /\ got.msg = [opcode |-> 10, payload |-> message.payload]
                 /\ e.frame[2] >= 128
                 /\ Wire' = (IF e.ok THEN Append(Wire, e) ELSE Wire)
          /\ stdout' = stdout
          /\ exc' = exc
          /\ sock' = sock
          /\ osSock' = osSock
          /\ buffer' = buffer
          /\ pc' = "read_loop"]_vars

\* a ping was answered by a pong that reached the socket, and another by a
\* pong whose send failed
C5_Witness ==
    /\ \E i \in 1..Len(sendLog) : sendLog[i].opcode = 10 /\ sendLog[i].ok
    /\ \E i \in 1..Len(sendLog) : sendLog[i].opcode = 10 /\ ~sendLog[i].ok
    /\ Len(dispatched) = 2

\* C6: a decoded close frame makes read_messages return normally, with no
\* exception and no further decode, however much of the budget remains.
C6_CloseEndsLoop ==
    [][(pc = "dispatch" /\ message.opcode = 8) =>
          /\ pc' = "finally"
          /\ exc' = "none"
          /\ trace'.loopExit = "close"
          /\ rf' = IdleRf
          /\ buffer' = buffer
          /\ peerStream' = peerStream
          /\ now' = now]_vars

\* read_messages has returned on a close frame with budget left and bytes of
\* a later frame still unread
C6_Witness ==
    /\ pc = "finally"
    /\ trace.loopExit = "close"
    /\ exc = "none"
    /\ now < end_time
    /\ Len(buffer) + Len(peerStream) > 0

\* C7: read_messages is never in its loop, nor blocked in a decode, later than
\* the deadline plus the remaining budget of the last poll plus one poll
\* granularity.
C7_DeadlineBound ==
    (InReadMessages \/ (pc = "finally" /\ trace.loopExit # "none")) =>
        now <= end_time + timeout + PollGranularity

\* C8: every frame the client writes has FIN set and the MASK bit set, carries
\* a 4-byte mask key after the length field, and its payload on the wire is
\* the original payload XORed with that key cycling over its 4 bytes; stated
\* of every step: the frames a step writes are such frames, and the frames
\* written before it stay as they were.
C8_FramesMasked ==
    [][/\ Len(sendLog') >= Len(sendLog)
       /\ SubSeq(sendLog', 1, Len(sendLog)) = sendLog
       /\ \A i \in (Len(sendLog) + 1)..Len(sendLog') :
            LET e == sendLog'[i]
                f == e.frame
                len7 == f[2] % 128
                h == IF len7 < 126 THEN 2 ELSE IF len7 = 126 THEN 4 ELSE 10
            IN  /\ f[1] = 128 + e.opcode
                /\ f[2] >= 128
                /\ Len(e.key) = 4
                /\ Len(f) = h + 4 + Len(e.payload)
                /\ SubSeq(f, h + 1, h + 4) = e.key
                /\ \A j \in 1..Len(e.payload) :
                       f[h + 4 + j] = Xor8(e.payload[j], e.key[((j - 1) % 4) + 1])]_vars

\* two texts, a pong and a close frame have been written
C8_Witness ==
    /\ Len(Wire) = 4
    /\ Wire[1].opcode = 1
    /\ Wire[2].opcode = 1
    /\ Wire[3].opcode = 10
    /\ Wire[4].opcode = 8

\* C9: the frames read_messages acts on are frames the peer sent, in the order
\* sent, whatever the chunking of the arrivals and wherever a read timed out:
\* no frame is made of the bytes left by a decode that a timeout interrupted.
C9_NoGarbledFrame ==
    /\ IsPrefix(dispatched, peerFrames)
    /\ pc = "dispatch" => IsPrefix(Append(dispatched, message), peerFrames)

\* a frame was acted on, a later read timed out after the header of the next
\* frame had been consumed, and the program has ended
C9_Witness ==
    /\ Terminal
    /\ trace.midTimeout
    /\ Len(dispatched) >= 1
    /\ Len(buffer) > 0

\* the text frame made from "<user>:<token>" (C8 ties the bytes of the frame
\* to the payload it was made from)
IsAuthFrame(e) ==
    /\ e.opcode = 1
    /\ e.payload = cfg.user \o <<58>> \o cfg.token

\* the text frame made from {"type": "sensory", "text": "a\""}
IsSensoryFrame(e) ==
    /\ e.opcode = 1
    /\ e.payload = <<123, 34, 116, 121, 112, 101, 34, 58, 32, 34, 115, 101, 110,
                     115, 111, 114, 121, 34, 44, 32, 34, 116, 101, 120, 116, 34,
                     58, 32, 34, 97, 92, 34, 34, 125>>

ReadingBegun == InReadMessages \/ dispatched # <<>> \/ trace.loopExit \notin {"none", "not_connected"}

\* C10 as claimed: the first frame written is the text frame carrying
\* "<user>:<token>", the second the text frame carrying the sensory JSON, and
\* no frame is read and no pong or close frame written before both are sent.
C10_FirstTwoFrames ==
    /\ Len(Wire) >= 1 => IsAuthFrame(Wire[1])
    /\ Len(Wire) >= 2 => IsSensoryFrame(Wire[2])
    /\ ReadingBegun => Len(Wire) >= 2

\* C10 amended: the first write main() attempts is the text frame carrying
\* "<user>:<token>" and, if it succeeds, the second is the text frame carrying
\* the sensory JSON; no frame is read and no pong is written before both have
\* been sent; a close frame comes before them only from close() after one of
\* the two sends raised.
C10_SendOrder ==
    /\ Len(sendLog) >= 1 => IsAuthFrame(sendLog[1])
    /\ (Len(sendLog) >= 2 /\ sendLog[1].ok) => IsSensoryFrame(sendLog[2])
    /\ ReadingBegun => (Len(sendLog) >= 2 /\ sendLog[1].ok /\ sendLog[2].ok)
    /\ \A i \in 1..Len(sendLog) :
         /\ sendLog[i].opcode = 10 => (i > 2 /\ sendLog[1].ok /\ sendLog[2].ok)
         /\ (sendLog[i].opcode = 8 /\ i <= 2) =>
                (exc = "OSError" /\ ~sendLog[i - 1].ok /\ i = Len(sendLog))

\* both frames were sent, then a frame of the peer was read and acted on
C10_Witness ==
    /\ Len(Wire) >= 2
    /\ IsAuthFrame(Wire[1])
    /\ IsSensoryFrame(Wire[2])
    /\ Len(dispatched) >= 1

\* C11: when a recv returns zero bytes during a decode (trace.loopExit becomes
\* "error"), at a frame boundary or inside a frame, the connection-closed
\* error leaves read_messages: the try block ends with ConnectionError, no
\* frame is dispatched, printed or answered from the incomplete bytes, the
\* loop is not resumed, and from then on the program is on its way to the
\* failure exit.
C11_ClosedPropagates ==
    [][/\ (pc = "recv_frame" /\ trace'.loopExit = "error") =>
            /\ exc' = "ConnectionError"
            /\ pc' = "finally"
            /\ dispatched' = dispatched
            /\ stdout' = stdout
            /\ sendLog' = sendLog
            /\ message' = message
            /\ buffer' = buffer
            /\ trace'.hdrTimeout = trace.hdrTimeout
            /\ trace'.midTimeout = trace.midTimeout
       /\ trace'.loopExit = "error" =>
            /\ exc' = "ConnectionError"
            /\ pc' \in {"finally", "exit_fail"}]_vars

\* the peer closed inside a frame: the program has failed with the bytes of
\* the incomplete frame still in the buffer and that frame not acted on
C11_Witness ==
    /\ pc = "exit_fail"
    /\ exc = "ConnectionError"
    /\ trace.loopExit = "error"
    /\ Len(buffer) > 0
    /\ Len(dispatched) < Len(peerFrames)
    /\ ~trace.midTimeout

\* C12: a timeout in the read of the 2 header bytes makes _recv_frame return
\* None without raising: no exception, no message, the caller is back at its
\* loop and the bytes gathered so far (none or one) stay in self.buffer; as
\* long as no read has timed out inside a frame, every frame a later call
\* returns is the next frame the peer sent, unchanged.
C12_HeaderTimeout ==
    [][/\ (pc = "recv_frame" /\ rf.stage = "header" /\ pc' = "read_loop") =>
            /\ buffer' = buffer
            /\ Len(buffer) < 2
            /\ peerStream' = peerStream
            /\ exc' = exc
            /\ message' = NoMessage
            /\ dispatched' = dispatched
            /\ rf' = IdleRf
       /\ ~trace'.midTimeout =>
            /\ IsPrefix(dispatched', peerFrames')
            /\ pc' = "dispatch" => IsPrefix(Append(dispatched', message'), peerFrames')]_vars

\* a header read timed out with one byte in the buffer, and a later call
\* returned the peer's first frame; no read timed out inside a frame
C12_Witness ==
    /\ trace.hdrPartial
    /\ ~trace.midTimeout
    /\ Len(dispatched) = 1
    /\ dispatched[1] = peerFrames[1]
    /\ Len(dispatched[1].payload) > 0

\* C13: at every point after the response was read, the bytes _read_exact
\* has returned so far followed by self.buffer are, in order, the bytes
\* received from the socket after the header terminator; the bytes that came
\* with the handshake response are the buffer the first decode starts from;
\* no step other than a recv moves bytes from the peer's stream to the
\* received ones, and a recv moves them in order, none lost, none twice; and
\* the first frame decoded, when no read timed out inside it, is the first
\* frame the peer sent.
C13_Conservation ==
    [][/\ trace'.returned \o buffer' = trace'.received
       /\ (pc = "connect" /\ response' # NoResponse) =>
            (trace'.returned = <<>> /\ buffer' = trace'.received)
       /\ (pc # "connect" /\ (trace'.loopExit = "error" => trace.loopExit = "error")) =>
            trace'.received \o peerStream' = trace.received \o peerStream
       /\ (pc' = "dispatch" /\ dispatched' = <<>> /\ ~trace'.midTimeout) =>
            (Len(peerFrames') >= 1 /\ message' = peerFrames'[1])]_vars

\* two frames came in whole with the handshake response: the first has been
\* decoded from the buffer, the second is still in it, and the socket has
\* delivered nothing since
C13_Witness ==
    /\ pc = "dispatch"
    /\ dispatched = <<>>
    /\ Len(peerFrames) = 2
    /\ message = peerFrames[1]
    /\ peerStream = <<>>
    /\ Len(buffer) > 0
    /\ trace.returned \o buffer = trace.received

\* C14: _encode_frame picks the length encoding from the payload length n
\* alone, whatever the opcode and the mask key: for n < 126 the 7-bit field
\* is n and the frame has 2 + 4 + n bytes; for 126 <= n <= 65535 the field is
\* 126, the next 2 bytes are n big-endian and the frame has 4 + 4 + n bytes;
\* for n >= 65536 the field is 127, the next 8 bytes are n big-endian and the
\* frame has 10 + 4 + n bytes; the mask key follows the length field.
C14_LengthTiers ==
    pc = "decoded" =>
        LET n == codecIn.len
            head == codecOut.head
            field == head[2] % 128
        IN  /\ head[2] >= 128
            /\ n < 126 =>
                 /\ field = n
                 /\ codecOut.frameLen = 2 + 4 + n
                 /\ SubSeq(head, 3, 6) = codecIn.key
            /\ (n >= 126 /\ n <= 65535) =>
                 /\ field = 126
                 /\ SubSeq(head, 3, 4) = <<n \div 256, n % 256>>
                 /\ codecOut.frameLen = 4 + 4 + n
                 /\ SubSeq(head, 5, 8) = codecIn.key
            /\ n >= 65536 =>
                 /\ field = 127
                 /\ SubSeq(head, 3, 10)
                        = <<0, 0, 0, 0, (n \div 16777216) % 256, (n \div 65536) % 256,
                            (n \div 256) % 256, n % 256>>
                 /\ codecOut.frameLen = 10 + 4 + n
                 /\ SubSeq(head, 11, 14) = codecIn.key

\* a payload of 65535 bytes, the longest of the 16-bit tier, has been encoded
C14_Witness ==
    /\ pc = "decoded"
    /\ codecIn.len = 65535
    /\ codecOut.head[2] = 254
    /\ SubSeq(codecOut.head, 3, 4) = <<255, 255>>
    /\ codecOut.frameLen = 65543

\* the status line is empty, has no code, or has a code that is no number
BadStatusLine(raw) ==
    \/ Len(raw.status_line) < 2
    \/ raw.status_line[2] \notin {"101", "0101", "200"}

HasColonlessLine(raw) ==
    \E i \in 1..Len(raw.header_lines) : ~raw.header_lines[i].colon

WithoutColonlessLines(raw) ==
    [raw EXCEPT !.header_lines = SelectSeq(@, LAMBDA l : l.colon)]

\* C15 as claimed: a response that is empty or whose status line has no code
\* or a non-numeric code parses to the status -1, and on such a response, as
\* on one that has header lines without a colon, connect() ends with the
\* handshake failure, the client unconnected.
C15_MalformedRejected ==
    [][pc = "connect" =>
          /\ BadStatusLine(rawResponse) => response'.status = -1
          /\ (BadStatusLine(rawResponse) \/ HasColonlessLine(rawResponse)) =>
               /\ exc' = "RuntimeError"
               /\ pc' = "exit_fail"
               /\ sock' = "None"]_vars

\* C15 amended: parsing never ends connect() with another error than the
\* handshake failure; an empty response, a status line without a code or
\* with a non-numeric code parse to the status -1, and connect() then ends
\* with the handshake failure, the client unconnected; header lines without
\* a colon are skipped: the response parses as it would without them.
C15_ParseTotal ==
    [][pc = "connect" =>
          /\ exc' \in {"none", "RuntimeError"}
          /\ BadStatusLine(rawResponse) =>
               /\ response'.status = -1
               /\ exc' = "RuntimeError"
               /\ pc' = "exit_fail"
               /\ sock' = "None"
          /\ response' = ReadHttpResponse(WithoutColonlessLines(rawResponse))
          /\ (exc' = "RuntimeError") <=> (sock' = "None")]_vars

\* the empty response (the peer closed at once) has been rejected
C15_Witness ==
    /\ pc = "exit_fail"
    /\ rawResponse = [status_line |-> <<>>, header_lines |-> <<>>]
    /\ response.status = -1
    /\ response.accept = NoneValue
    /\ exc = "RuntimeError"
    /\ sock = "None"

\* C16: from the decode of a close frame to the return of read_messages the
\* client writes nothing: the step that handles the close frame leaves the
\* log of writes as it was and is the step that leaves read_messages, the
\* connection still open.
C16_NoCloseAck ==
    [][(pc = "dispatch" /\ message.opcode = 8) =>
          /\ sendLog' = sendLog
          /\ pc' \notin {"read_loop", "recv_frame", "dispatch"}
          /\ sock' = sock
          /\ osSock' = osSock]_vars

\* read_messages has returned on the peer's close frame, the first frame it
\* decoded, and the only writes so far are the two text frames of main()
C16_Witness ==
    /\ pc = "finally"
    /\ trace.loopExit = "close"
    /\ dispatched = <<[opcode |-> 8, payload |-> <<>>]>>
    /\ Len(sendLog) = 2
    /\ sendLog[1].opcode = 1
    /\ sendLog[2].opcode = 1
    /\ sock = "sock"

\* C17: frames are written and read only on an open connection: send_text
\* and send_json on a client that is not connected (before a successful
\* connect(), after close()) raise the not-connected error and write nothing;
\* read_messages on such a client returns at once, reading nothing; no step
\* writes a frame unless self.sock is set; and once a handshake was rejected
\* nothing is ever written.
C17_OnlyWhileOpen ==
    [][/\ (pc \in {"send_auth", "send_json"} /\ sock = "None") =>
            /\ exc' = "RuntimeError"
            /\ sendLog' = sendLog
            /\ pc' = "finally"
       /\ (pc = "read_messages" /\ sock = "None") =>
            /\ pc' = "finally"
            /\ exc' = exc
            /\ sendLog' = sendLog
            /\ buffer' = buffer
            /\ peerStream' = peerStream
            /\ trace'.received = trace.received
            /\ trace'.returned = trace.returned
            /\ dispatched' = dispatched
            /\ now' = now
       /\ sendLog' # sendLog => sock = "sock"
       /\ (response' # NoResponse /\
              (\/ response'.status # 101
               \/ ~response'.accept.present
               \/ response'.accept.text # ExpectedAccept(key'))) =>
            sendLog' = <<>>]_vars

\* after close() had sent its close frame and released the socket, a send was
\* called and raised the not-connected error
C17_Witness ==
    /\ pc = "finally"
    /\ exc = "RuntimeError"
    /\ sock = "None"
    /\ osSock = "closed"
    /\ Len(sendLog) >= 3
    /\ sendLog[Len(sendLog)].opcode = 8
    /\ sendLog[Len(sendLog)].ok

\* the frames a byte string is made of, decoded one after the other; a
\* last incomplete frame shows as NoMessage
RECURSIVE DecodeAll(_)
DecodeAllOn(got) ==
    IF got.short THEN <<NoMessage>> ELSE <<got.msg>> \o DecodeAll(got.rest)

DecodeAll(buf) ==
    IF Len(buf) = 0 THEN <<>> ELSE DecodeAllOn(RunRecvFrame(StartRecvFrame, buf))

\* C18: a decoded frame whose opcode is none of 0x1, 0x9, 0x8 (continuation,
\* binary, pong, reserved) changes nothing: nothing is printed, nothing is
\* written, no exception is raised, the connection stays open, the loop goes
\* on; the frame has been consumed whole: the buffer and the stream are left
\* as the decode left them and, if no read timed out inside a frame, the
\* bytes _read_exact has returned so far are exactly the frames acted on so
\* far followed by this one.
C18_OtherOpcodeIgnored ==
    [][(pc = "dispatch" /\ message.opcode \notin {1, 9, 8}) =>
          /\ stdout' = stdout
          /\ sendLog' = sendLog
          /\ exc' = exc
          /\ sock' = sock
          /\ osSock' = osSock
          /\ pc' = "read_loop"
          /\ buffer' = buffer
          /\ peerStream' = peerStream
          /\ now' = now
          /\ rf = IdleRf
          /\ rf' = IdleRf
          /\ ~trace.midTimeout =>
               DecodeAll(trace.returned) = Append(dispatched, message)]_vars

\* a binary frame and then a masked frame with the reserved opcode 11 were
\* decoded and passed over: nothing printed, nothing written but the two
\* text frames of main(), the connection open and the loop at its next turn
C18_Witness ==
    /\ pc = "read_loop"
    /\ Len(dispatched) = 2
    /\ dispatched[1] = [opcode |-> 2, payload |-> <<136, 0>>]
    /\ dispatched[2] = [opcode |-> 11, payload |-> <<137, 0>>]
    /\ stdout = <<>>
    /\ Len(sendLog) = 2
    /\ sock = "sock"
    /\ osSock = "open"
    /\ exc = "none"

\* C19: close() on a client whose self.sock is None (never connected, or
\* closed before) writes nothing, releases nothing and raises nothing; and in
\* the log of the client's writes a close frame is always the last entry, so
\* at most one close frame is written per connection and no frame follows it.
C19_CloseIdempotent ==
    [][/\ (pc = "finally" /\ sock = "None") =>
            /\ sendLog' = sendLog
            /\ osSock' = osSock
            /\ sock' = "None"
            /\ exc' = exc
            /\ buffer' = buffer
       /\ \A i \in 1..Len(sendLog') :
            sendLog'[i].opcode = 8 => i = Len(sendLog')]_vars

\* the connection ended on ConnectionError and was closed with a close frame
\* sent; close() was then called again and returned normally
C19_Witness ==
    /\ pc = "exit_ok"
    /\ exc = "none"
    /\ trace.loopExit = "error"
    /\ osSock = "closed"
    /\ sock = "None"
    /\ Len(sendLog) >= 3
    /\ sendLog[Len(sendLog)].opcode = 8
    /\ sendLog[Len(sendLog)].ok
    /\ Cardinality({i \in 1..Len(sendLog) : sendLog[i].opcode = 8}) = 1

====
